---- MODULE Spec2Model ----
(***************************************************************************)
(* Model of package tplx (src/tplx.go): NewRenderer builds a registry of   *)
(* html/template sets from a Spec, a file system and a global FuncMap;     *)
(* Render looks a name up in the registry and executes it.                 *)
(*                                                                         *)
(* The html/template calls the package makes (New, Funcs, Parse,           *)
(* ExecuteTemplate) are modelled by their documented behaviour:            *)
(*   - all templates of one set share ONE function map; Funcs adds to it   *)
(*     and overwrites entries of the same name;                            *)
(*   - Parse stores the body under the receiver's name and every           *)
(*     {{define}} block of the text under the block's name; a body of      *)
(*     only white space and comments does not replace an existing body;    *)
(*   - Parse fails on a syntax error and on a call of an undefined         *)
(*     function;                                                           *)
(*   - ExecuteTemplate runs the template of the given name of the set and  *)
(*     streams its output to the writer.                                   *)
(* A template set is represented by what it defines (name -> body) and its *)
(* function map; the escaping pass html/template runs inside the set at    *)
(* its first execution is internal to the engine and is not represented.   *)
(***************************************************************************)
EXTENDS Naturals, Sequences, FiniteSets, TLC

VARIABLES fsys, spec, funcs, phase, r, err, pc, call, tloc, rerr, wr, used,
          nCalls, nExec

vars == <<fsys, spec, funcs, phase, r, err, pc, call, tloc, rerr, wr, used,
          nCalls, nExec>>

(* ------------------------------ bounds --------------------------------- *)
\* longest fragment list of a composite
MaxFrags == 2
\* render calls made in one behaviour
MaxRenders == 2

\* keys a Spec may have, and the names a fragment may carry
CompNames == {"page", "header"}
\* names a caller may pass to Render ("footer" is never a key)
RenderNames == CompNames \cup {"footer"}
\* goroutines calling Render on the same renderer
Procs == {1, 2}
Paths == {"a.tmpl", "b.tmpl"}
FuncNames == {"g"}
NoFunc == "nofunc"
FuncVals == {"f1", "f2"}
FuncMaps == [FuncNames -> FuncVals \cup {NoFunc}]
\* a nil or empty template.FuncMap
NoFuncs == [n \in FuncNames |-> NoFunc]

(* --------------------------- template texts ---------------------------- *)
\* T1, T2: plain bodies; E: white space only; BAD: a syntax error;
\* D: a body and a {{define "footer"}} block; G: a body that calls g.
AllTexts == {"T1", "T2", "E", "BAD", "D", "G"}
Syntax(text) == text # "BAD"
Calls(text) == IF text = "G" THEN {"g"} ELSE {}
Defines(text) == IF text = "D" THEN ("footer" :> "D.footer") ELSE <<>>
IsEmptyTree(tree) == tree = "E"
NoTree == "notree"

(* ------------------------------- errors -------------------------------- *)
NoErr == [msg |-> "nil", cause |-> "none"]
ErrUnknownTemplate == [msg |-> "template not found in renderer", cause |-> "none"]
ErrInvalidSpec == [msg |-> "template renderer spec is invalid", cause |-> "none"]
ErrNotExist == [msg |-> "open: file does not exist", cause |-> "none"]
ErrParse == [msg |-> "template: parse error", cause |-> "none"]
ErrExec == [msg |-> "template: exec error", cause |-> "none"]
\* fmt.Errorf(msg + ": %w", e)
Errorf(msg, e) == [msg |-> msg, cause |-> e.msg]

(* ---------------------------- html/template ---------------------------- *)
\* template.New(name): a new set holding name with no body yet
TemplateNew(name) == [name |-> name, set |-> (name :> NoTree), funcs |-> NoFuncs]

\* t.Funcs(fm): fm's entries are added to the set's shared function map
TemplateFuncs(t, fm) ==
    [t EXCEPT !.funcs = [n \in FuncNames |-> IF fm[n] # NoFunc THEN fm[n] ELSE @[n]]]

\* t.New(name): a template of the same set; a body parsed earlier under name
\* stays in the set until Parse replaces it
TemplateChild(t, name) ==
    [t EXCEPT !.name = name,
              !.set = IF name \in DOMAIN t.set THEN @ ELSE (name :> NoTree) @@ @]

\* the trees Parse gets from the text: the body under the receiver's name,
\* and the {{define}} blocks
Trees(name, text) == (name :> text) @@ Defines(text)

\* association of one parsed tree with the set
Associate(set, name, tree) ==
    IF name \in DOMAIN set /\ set[name] # NoTree /\ IsEmptyTree(tree)
    THEN set
    ELSE (name :> tree) @@ set

\* t.Parse(text)
TemplateParse(t, text) ==
    IF ~Syntax(text) \/ \E g \in Calls(text) : t.funcs[g] = NoFunc
    THEN [t |-> t, err |-> ErrParse]
    ELSE LET trees == Trees(t.name, text)
             names == DOMAIN t.set \cup DOMAIN trees
         IN [t |-> [t EXCEPT !.set =
                       [n \in names |->
                          IF n \in DOMAIN trees
                          THEN Associate(t.set, n, trees[n])[n]
                          ELSE t.set[n]]],
             err |-> NoErr]

\* fs.ReadFile(fsys, path)
ReadFile(fs, path) ==
    IF path \in DOMAIN fs
    THEN [text |-> fs[path], err |-> NoErr]
    ELSE [text |-> "", err |-> ErrNotExist]

(* ----------------------------- NewRenderer ----------------------------- *)
\* mutant: the error of fs.ReadFile is dropped and the empty text is parsed
LoopBodyIgnoreRead(fs, name, meta, st) ==
    LET inc == st.inc \/ meta.Name = name
        rd == ReadFile(fs, meta.Path)
        p == TemplateParse(
               TemplateFuncs(TemplateChild(st.t, meta.Name), meta.Funcs),
               IF rd.err # NoErr THEN "E" ELSE rd.text)
    IN IF p.err # NoErr
       THEN [t |-> st.t, inc |-> inc, err |-> p.err]
       ELSE [t |-> p.t, inc |-> inc, err |-> NoErr]

\* body of the loop over the fragments of one composite
LoopBody(fs, name, meta, st) ==
    LET inc == st.inc \/ meta.Name = name
        rd == ReadFile(fs, meta.Path)
    IN IF rd.err # NoErr
       THEN [t |-> st.t, inc |-> inc,
             err |-> Errorf("unable to read template file", rd.err)]
       ELSE LET p == TemplateParse(
                       TemplateFuncs(TemplateChild(st.t, meta.Name), meta.Funcs),
                       rd.text)
            IN IF p.err # NoErr
               THEN [t |-> st.t, inc |-> inc, err |-> p.err]
               ELSE [t |-> p.t, inc |-> inc, err |-> NoErr]

RECURSIVE ParseMetas(_, _, _, _, _)
\* for _, meta := range metas, stopping at the first error
ParseMetas(fs, name, metas, i, st) ==
    IF i > Len(metas) \/ st.err # NoErr
    THEN st
    ELSE ParseMetas(fs, name, metas, i + 1, LoopBody(fs, name, metas[i], st))

\* mutant: the check of inc after the loop is missing
BuildCompositeUnchecked(fs, name, metas, gf) ==
    LET st == ParseMetas(fs, name, metas, 1,
                  [t |-> TemplateFuncs(TemplateNew(name), gf),
                   inc |-> FALSE, err |-> NoErr])
    IN [t |-> st.t, err |-> st.err]

\* one composite: the template set and the error, if any
BuildComposite(fs, name, metas, gf) ==
    LET st == ParseMetas(fs, name, metas, 1,
                  [t |-> TemplateFuncs(TemplateNew(name), gf),
                   inc |-> FALSE, err |-> NoErr])
    IN IF st.err # NoErr THEN [t |-> st.t, err |-> st.err]
       ELSE IF ~st.inc THEN [t |-> st.t, err |-> ErrInvalidSpec]
       ELSE [t |-> st.t, err |-> NoErr]

NilRenderer == [nil |-> TRUE, m |-> <<>>]

\* mutant: break out of the loop and return what was built, without the error
FailBreak(m, e) == [r |-> [nil |-> FALSE, m |-> m], err |-> NoErr]

\* return nil, err: the registry built so far is dropped
Fail(m, e) == [r |-> NilRenderer, err |-> e]

\* mutant: r.m[t.Name()] = t, the key taken from the last fragment parsed
StoreByTemplateName(m, name, t) == (t.name :> t) @@ m

\* r.m[name] = t
Store(m, name, t) == (name :> t) @@ m

RECURSIVE BuildFrom(_, _, _, _, _, _)
\* for name, metas := range spec, in the order the map iteration takes
BuildFrom(fs, sp, gf, order, i, m) ==
    IF i > Len(order)
    THEN [r |-> [nil |-> FALSE, m |-> m], err |-> NoErr]
    ELSE LET c == BuildComposite(fs, order[i], sp[order[i]], gf)
         IN IF c.err # NoErr
            THEN Fail(m, c.err)
            ELSE BuildFrom(fs, sp, gf, order, i + 1, Store(m, order[i], c.t))

\* the orders a range over a map with these keys may take
Orders(keys) ==
    {o \in [1..Cardinality(keys) -> keys] : \A i, j \in DOMAIN o : o[i] = o[j] => i = j}

Build(fs, sp, gf, order) == BuildFrom(fs, sp, gf, order, 1, <<>>)

NewRenderer ==
    /\ phase = "init"
    /\ \E order \in Orders(DOMAIN spec) :
          LET res == Build(fsys, spec, funcs, order)
          IN /\ r' = res.r
             /\ err' = res.err
             /\ phase' = IF res.err = NoErr THEN "built" ELSE "failed"
    /\ UNCHANGED <<fsys, spec, funcs, pc, call, tloc, rerr, wr, used, nCalls, nExec>>

(* -------------------------------- Render ------------------------------- *)
NoCall == [name |-> "", data |-> "ok", funcs |-> NoFuncs]
NoTemplate == [name |-> "", set |-> <<>>, funcs |-> NoFuncs]
Total(n) == n[1] + n[2]

\* the function a call of g runs when a template of the set t executes
Resolve(t, g) == t.funcs[g]

\* t.ExecuteTemplate(wr, name, data): the output and the error
ExecuteTemplate(t, name, data) ==
    IF name \notin DOMAIN t.set \/ t.set[name] = NoTree
    THEN {[out |-> <<>>, err |-> ErrExec]}
    ELSE IF data = "ok"
    THEN {[out |-> IF IsEmptyTree(t.set[name]) THEN <<>> ELSE <<t.set[name]>>,
           err |-> NoErr]}
    ELSE {[out |-> <<>>, err |-> ErrExec], [out |-> <<"partial">>, err |-> ErrExec]}

\* mutant: the return after the failed lookup is missing
RenderLookupNoReturn(p) ==
    /\ phase = "built"
    /\ pc[p] = "idle"
    /\ Total(nCalls) < MaxRenders
    /\ \E name \in RenderNames, data \in {"ok", "mismatch"}, fm \in FuncMaps :
          /\ call' = [call EXCEPT ![p] = [name |-> name, data |-> data, funcs |-> fm]]
          /\ tloc' = [tloc EXCEPT ![p] =
                        IF name \in DOMAIN r.m THEN r.m[name] ELSE NoTemplate]
    /\ pc' = [pc EXCEPT ![p] = "exec"]
    /\ rerr' = [rerr EXCEPT ![p] = NoErr]
    /\ used' = [used EXCEPT ![p] = NoFuncs]
    /\ nCalls' = [nCalls EXCEPT ![p] = @ + 1]
    /\ UNCHANGED <<fsys, spec, funcs, phase, r, err, wr, nExec>>

\* Render up to the call of the engine: the lookup in r.m
RenderLookup(p) ==
    /\ phase = "built"
    /\ pc[p] = "idle"
    /\ Total(nCalls) < MaxRenders
    /\ \E name \in RenderNames, data \in {"ok", "mismatch"}, fm \in FuncMaps :
          /\ call' = [call EXCEPT ![p] = [name |-> name, data |-> data, funcs |-> fm]]
          /\ IF name \in DOMAIN r.m
             THEN /\ tloc' = [tloc EXCEPT ![p] = r.m[name]]
                  /\ pc' = [pc EXCEPT ![p] = "exec"]
                  /\ rerr' = [rerr EXCEPT ![p] = NoErr]
             ELSE /\ rerr' = [rerr EXCEPT ![p] = ErrUnknownTemplate]
                  /\ UNCHANGED <<tloc, pc>>
    /\ used' = [used EXCEPT ![p] = NoFuncs]
    /\ nCalls' = [nCalls EXCEPT ![p] = @ + 1]
    /\ UNCHANGED <<fsys, spec, funcs, phase, r, err, wr, nExec>>

\* mutant: the funcs argument is applied with t.Funcs(funcs) to the template
\* the registry holds
RenderExecuteWithFuncs(p) ==
    /\ pc[p] = "exec"
    /\ \E res \in ExecuteTemplate(tloc[p], call[p].name, call[p].data) :
          /\ wr' = [wr EXCEPT ![p] = @ \o res.out]
          /\ rerr' = [rerr EXCEPT ![p] =
                        IF res.err # NoErr
                        THEN Errorf("cannot render template", res.err)
                        ELSE NoErr]
    /\ r' = [r EXCEPT !.m[call[p].name] = TemplateFuncs(@, call[p].funcs)]
    /\ used' = [used EXCEPT ![p] = TemplateFuncs(tloc[p], call[p].funcs).funcs]
    /\ nExec' = nExec + 1
    /\ pc' = [pc EXCEPT ![p] = "idle"]
    /\ tloc' = [tloc EXCEPT ![p] = NoTemplate]
    /\ UNCHANGED <<fsys, spec, funcs, phase, err, call, nCalls>>

\* mutant: t.Execute(wr, data), which runs the last fragment parsed, in place
\* of t.ExecuteTemplate(wr, name, data)
RenderExecuteLast(p) ==
    /\ pc[p] = "exec"
    /\ \E res \in ExecuteTemplate(tloc[p], tloc[p].name, call[p].data) :
          /\ wr' = [wr EXCEPT ![p] = @ \o res.out]
          /\ rerr' = [rerr EXCEPT ![p] =
                        IF res.err # NoErr
                        THEN Errorf("cannot render template", res.err)
                        ELSE NoErr]
    /\ used' = [used EXCEPT ![p] = tloc[p].funcs]
    /\ nExec' = nExec + 1
    /\ pc' = [pc EXCEPT ![p] = "idle"]
    /\ tloc' = [tloc EXCEPT ![p] = NoTemplate]
    /\ UNCHANGED <<fsys, spec, funcs, phase, r, err, call, nCalls>>

\* the call of the engine and the return
RenderExecute(p) ==
    /\ pc[p] = "exec"
    /\ \E res \in ExecuteTemplate(tloc[p], call[p].name, call[p].data) :
          /\ wr' = [wr EXCEPT ![p] = @ \o res.out]
          /\ rerr' = [rerr EXCEPT ![p] =
                        IF res.err # NoErr
                        THEN Errorf("cannot render template", res.err)
                        ELSE NoErr]
    /\ used' = [used EXCEPT ![p] = tloc[p].funcs]
    /\ nExec' = nExec + 1
    /\ pc' = [pc EXCEPT ![p] = "idle"]
    /\ tloc' = [tloc EXCEPT ![p] = NoTemplate]
    /\ UNCHANGED <<fsys, spec, funcs, phase, r, err, call, nCalls>>

(* ---------------------------- specifications --------------------------- *)
Metas(paths, fms) == [Name : CompNames, Path : paths, Funcs : fms]
MetaSeqs(paths, fms) == UNION {[1..n -> Metas(paths, fms)] : n \in 0..MaxFrags}
Specs(paths, fms) == UNION {[S -> MetaSeqs(paths, fms)] : S \in SUBSET CompNames}
FileSystems(texts) == UNION {[S -> texts] : S \in SUBSET Paths}

Idle ==
    /\ phase = "init"
    /\ r = NilRenderer
    /\ err = NoErr
    /\ pc = [p \in Procs |-> "idle"]
    /\ call = [p \in Procs |-> NoCall]
    /\ tloc = [p \in Procs |-> NoTemplate]
    /\ rerr = [p \in Procs |-> NoErr]
    /\ wr = [p \in Procs |-> <<>>]
    /\ used = [p \in Procs |-> NoFuncs]
    /\ nCalls = [p \in Procs |-> 0]
    /\ nExec = 0

\* every file system over Paths and every Spec with lists of at most MaxFrags
\* fragments; no functions
InitBuild ==
    /\ fsys \in FileSystems(AllTexts)
    /\ spec \in Specs(Paths, {NoFuncs})
    /\ funcs = NoFuncs
    /\ Idle

\* one file system, every Spec over it with every choice of functions
FuncFS == ("a.tmpl" :> "T1") @@ ("b.tmpl" :> "G")
InitFuncs ==
    /\ fsys = FuncFS
    /\ spec \in Specs(Paths, FuncMaps)
    /\ funcs \in FuncMaps
    /\ Idle

\* the file system of the scenarios the renders run on
ScenFS ==
    ("a.tmpl" :> "T1") @@ ("b.tmpl" :> "T2") @@ ("e.tmpl" :> "E") @@
    ("d.tmpl" :> "D") @@ ("g.tmpl" :> "G")
Frag(name, path) == [Name |-> name, Path |-> path, Funcs |-> NoFuncs]
FragF(name, path, f) == [Name |-> name, Path |-> path, Funcs |-> [n \in FuncNames |-> f]]
Scenarios ==
    { [spec |-> <<>>, funcs |-> NoFuncs],
      [spec |-> ("page" :> <<Frag("header", "b.tmpl")>>), funcs |-> NoFuncs],
      [spec |-> ("page" :> <<Frag("page", "a.tmpl"), Frag("header", "b.tmpl")>>),
       funcs |-> NoFuncs],
      [spec |-> ("page" :> <<Frag("header", "b.tmpl"), Frag("page", "a.tmpl")>>) @@
                ("header" :> <<Frag("header", "a.tmpl")>>),
       funcs |-> NoFuncs],
      [spec |-> ("page" :> <<Frag("page", "a.tmpl"), Frag("page", "b.tmpl")>>) @@
                ("header" :> <<Frag("page", "a.tmpl"), Frag("header", "e.tmpl")>>),
       funcs |-> NoFuncs],
      [spec |-> ("page" :> <<Frag("page", "a.tmpl"), Frag("header", "b.tmpl"),
                             Frag("page", "e.tmpl")>>),
       funcs |-> NoFuncs],
      [spec |-> ("page" :> <<Frag("page", "d.tmpl")>>) @@
                ("header" :> <<Frag("header", "b.tmpl")>>),
       funcs |-> NoFuncs],
      [spec |-> ("page" :> <<FragF("page", "g.tmpl", "f1"), FragF("header", "a.tmpl", "f2")>>),
       funcs |-> NoFuncs],
      [spec |-> ("page" :> <<FragF("header", "a.tmpl", "f1"), Frag("page", "g.tmpl")>>) @@
                ("header" :> <<Frag("header", "g.tmpl")>>),
       funcs |-> [n \in FuncNames |-> "f2"]] }

Init ==
    /\ fsys = ScenFS
    /\ \E sc \in Scenarios : spec = sc.spec /\ funcs = sc.funcs
    /\ Idle

Next ==
    \/ NewRenderer
    \/ \E p \in Procs : RenderLookup(p)
    \/ \E p \in Procs : RenderExecute(p)

\* NewRenderer and the renders that follow it, on the scenarios
Spec == Init /\ [][Next]_vars

\* NewRenderer alone, on every input within the bounds
SpecBuild == InitBuild /\ [][NewRenderer]_vars

\* NewRenderer alone, on every choice of functions
SpecFuncs == InitFuncs /\ [][NewRenderer]_vars

(* ------------------------------- claims -------------------------------- *)
Returned == phase # "init"
HasEntry(sp, N) == \E i \in DOMAIN sp[N] : sp[N][i].Name = N
AllEntries == \A N \in DOMAIN spec : HasEntry(spec, N)
Readable(fs, meta) == meta.Path \in DOMAIN fs
AllReadable == \A N \in DOMAIN spec : \A i \in DOMAIN spec[N] : Readable(fsys, spec[N][i])
\* g is defined when fragment i of N is parsed
DefinedAt(sp, gf, N, i, g) ==
    gf[g] # NoFunc \/ \E j \in 1..i : sp[N][j].Funcs[g] # NoFunc
Parses(fs, sp, gf, N, i) ==
    LET text == fs[sp[N][i].Path]
    IN Syntax(text) /\ \A g \in Calls(text) : DefinedAt(sp, gf, N, i, g)
\* every fragment file that exists parses
AllParse ==
    \A N \in DOMAIN spec : \A i \in DOMAIN spec[N] :
        Readable(fsys, spec[N][i]) => Parses(fsys, spec, funcs, N, i)
Succeeded == err = NoErr /\ ~r.nil /\ DOMAIN r.m = DOMAIN spec
Failed == err # NoErr /\ r = NilRenderer
ReadError == Errorf("unable to read template file", ErrNotExist)

\* C1 as stated: whenever every composite lists a fragment named after
\* itself, NewRenderer succeeds and the keys of the registry are the keys of
\* the Spec.
C1_Original == (Returned /\ AllEntries) => Succeeded

\* C1: whenever every composite lists a fragment named after itself and every
\* fragment file can be read and parsed, NewRenderer succeeds and the keys of
\* the registry are exactly the keys of the Spec.
C1_KeysAreCompositeNames ==
    (Returned /\ AllEntries /\ AllReadable /\ AllParse) => Succeeded

C1_Witness ==
    /\ phase = "built"
    /\ Cardinality(DOMAIN spec) = 2
    /\ DOMAIN r.m = DOMAIN spec
    /\ \E N \in DOMAIN spec : Len(spec[N]) = 2 /\ spec[N][2].Name # N

\* C2 as stated: whenever some composite lists no fragment named after
\* itself, NewRenderer returns ErrInvalidSpec and no registry, whatever the
\* files are.
C2_Original == (Returned /\ ~AllEntries) => (err = ErrInvalidSpec /\ r = NilRenderer)

\* C2: whenever some composite lists no fragment named after itself,
\* NewRenderer fails and returns no registry; the error is ErrInvalidSpec when
\* every fragment file can be read and parsed.
C2_MissingEntryFails ==
    (Returned /\ ~AllEntries) =>
        (Failed /\ ((AllReadable /\ AllParse) => err = ErrInvalidSpec))

C2_Witness ==
    /\ phase = "failed"
    /\ err = ErrInvalidSpec
    /\ Cardinality(DOMAIN spec) = 2
    /\ \E N \in DOMAIN spec : spec[N] = <<>>
    /\ \E N \in DOMAIN spec : HasEntry(spec, N)

\* C3 as stated: whenever some fragment's Path is not in the file system,
\* NewRenderer returns the wrapped read error and no registry.
C3_Original == (Returned /\ ~AllReadable) => (err = ReadError /\ r = NilRenderer)

\* C3: whenever some fragment's Path is not in the file system, NewRenderer
\* fails and returns no registry; the error is the read error wrapped when
\* every composite lists a fragment named after itself and every file that
\* exists parses.
C3_MissingFileFails ==
    (Returned /\ ~AllReadable) =>
        (Failed /\ ((AllEntries /\ AllParse) => err = ReadError))

C3_Witness ==
    /\ phase = "failed"
    /\ err = ReadError
    /\ err.cause = ErrNotExist.msg
    /\ Cardinality(DOMAIN spec) = 2
    /\ \E N \in DOMAIN spec : \A i \in DOMAIN spec[N] : Readable(fsys, spec[N][i])

\* C4 as stated, in the case where the parse error is the only defect: when a
\* fragment's text is not valid template syntax, NewRenderer fails with an
\* error that wraps the engine's parse error and is not that error itself.
C4_ParseErrorWrapped ==
    (/\ Returned /\ AllReadable /\ AllEntries
     /\ \E N \in DOMAIN spec : \E i \in DOMAIN spec[N] : ~Syntax(fsys[spec[N][i].Path]))
    => (Failed /\ err.cause = ErrParse.msg /\ err # ErrParse)

\* C5: a Render call with a name that is no key of the registry returns
\* ErrUnknownTemplate, leaves every writer as it was and returns without
\* reaching the engine.
C5_UnknownName ==
    [][\A p \in Procs :
          (phase = "built" /\ nCalls'[p] = nCalls[p] + 1
             /\ call'[p].name \notin DOMAIN r.m)
          => (/\ rerr'[p] = ErrUnknownTemplate
              /\ pc'[p] = "idle"
              /\ wr' = wr
              /\ nExec' = nExec)]_vars

C5_Witness ==
    \E p \in Procs :
        /\ nCalls[p] > 0
        /\ rerr[p] = ErrUnknownTemplate
        /\ DOMAIN r.m = {"page"}
        /\ call[p].name = "header"
        /\ "header" \in DOMAIN r.m["page"].set

\* C6 as stated: a function passed in the funcs argument of a Render call is
\* the one the execution of that call uses under its name.
C6_RenderFuncsVisible ==
    \A p \in Procs :
        (pc[p] = "idle" /\ nCalls[p] > 0 /\ rerr[p] # ErrUnknownTemplate)
        => \A g \in FuncNames :
              call[p].funcs[g] # NoFunc => used[p][g] = call[p].funcs[g]

\* C7 as stated: for every fragment of a composite, a function name resolves
\* to the fragment's own function when it gives one and to the global one
\* otherwise, whatever the other fragments of the composite give.
C7_FragmentFuncsLayered ==
    phase = "built" =>
        \A N \in DOMAIN spec : \A i \in DOMAIN spec[N] : \A g \in FuncNames :
            Resolve(r.m[N], g) =
                IF spec[N][i].Funcs[g] # NoFunc THEN spec[N][i].Funcs[g] ELSE funcs[g]

C9_OrderIndependent ==
    Returned =>
        \A o \in Orders(DOMAIN spec) :
            LET res == Build(fsys, spec, funcs, o)
            IN /\ (res.err = NoErr) = (err = NoErr)
               /\ res.err = NoErr => res.r = r

\* two orders report different errors
C9_Witness ==
    /\ phase = "failed"
    /\ \E o \in Orders(DOMAIN spec) :
          Build(fsys, spec, funcs, o).err \notin {err, NoErr}

Listed(metas) == {metas[i].Name : i \in DOMAIN metas}
LastOcc(metas, n) ==
    CHOOSE i \in DOMAIN metas :
        metas[i].Name = n /\ \A j \in DOMAIN metas : metas[j].Name = n => j <= i
\* the trees fragment i of the list contributes
TreesOf(fs, metas, i) == Trees(metas[i].Name, fs[metas[i].Path])
Givers(fs, metas, n) == {i \in DOMAIN metas : n \in DOMAIN TreesOf(fs, metas, i)}
\* the definition of n a list gives: its last one that is not blank, and a
\* blank one when all are blank
Expected(fs, metas, n) ==
    LET full == {i \in Givers(fs, metas, n) : ~IsEmptyTree(TreesOf(fs, metas, i)[n])}
    IN IF full = {}
       THEN TreesOf(fs, metas, CHOOSE i \in Givers(fs, metas, n) : TRUE)[n]
       ELSE TreesOf(fs, metas, CHOOSE i \in full : \A j \in full : j <= i)[n]
Output(tree) == IF IsEmptyTree(tree) THEN <<>> ELSE <<tree>>

\* C10 as stated: the set stored under N holds exactly the names listed for
\* N, each with the text of its last occurrence, and a Render of N runs on
\* the set stored under N.
C10_Original ==
    /\ phase = "built" =>
          \A N \in DOMAIN r.m :
              /\ DOMAIN r.m[N].set = Listed(spec[N])
              /\ N \in DOMAIN r.m[N].set
              /\ \A n \in Listed(spec[N]) :
                    r.m[N].set[n] = fsys[spec[N][LastOcc(spec[N], n)].Path]
    /\ \A p \in Procs : pc[p] = "exec" => tloc[p] = r.m[call[p].name]

C10_Registry ==
    phase = "built" =>
        \A N \in DOMAIN r.m :
            /\ DOMAIN r.m[N].set =
                  UNION {DOMAIN TreesOf(fsys, spec[N], i) : i \in DOMAIN spec[N]}
            /\ Listed(spec[N]) \subseteq DOMAIN r.m[N].set
            /\ N \in DOMAIN r.m[N].set
            /\ \A n \in DOMAIN r.m[N].set : r.m[N].set[n] = Expected(fsys, spec[N], n)

C10_RenderStep ==
    \A p \in Procs :
        /\ pc'[p] = "exec" => tloc'[p] = r.m[call'[p].name]
        /\ (pc[p] = "exec" /\ pc'[p] = "idle" /\ rerr'[p] = NoErr)
           => wr'[p] = wr[p] \o Output(Expected(fsys, spec[call[p].name], call[p].name))

\* C10: the set stored under N holds a definition for every name listed for
\* N and for every name a {{define}} block of N's own texts gives, and for
\* no other name; each definition is the last one N's list gives that is not
\* blank; N itself is among them; and a successful Render of N writes the
\* output of the entry point N of that set.
C10_CompositesIsolated == []C10_Registry /\ [][C10_RenderStep]_vars

C10_Witness ==
    /\ DOMAIN r.m = {"page", "header"}
    /\ "header" \in DOMAIN r.m["page"].set
    /\ r.m["page"].set["header"] # r.m["header"].set["header"]
    /\ \E p \in Procs :
          /\ pc[p] = "idle" /\ nCalls[p] > 0 /\ rerr[p] = NoErr
          /\ call[p].name = "header"
          /\ wr[p] = <<r.m["header"].set["header"]>>
====
